---- MODULE Spec2Model ----
(***************************************************************************)
(* Model of boomi-mcp-server.js: an Express application that proxies six   *)
(* routes to the Boomi REST API through axios.                             *)
(*                                                                         *)
(* One inbound request is followed from its arrival to its response and to *)
(* the settling of every upstream call it issued.  The handlers share no   *)
(* mutable state, so one request at a time loses no behaviour.             *)
(*                                                                         *)
(* JavaScript values are tagged records [t |-> type, v |-> value], so that *)
(* truthiness (!x, a || b) and presence (x !== undefined) are computed as  *)
(* the language computes them.  An object is a TLA+ record of such values; *)
(* reading a key the object lacks gives Undefined.                         *)
(*                                                                         *)
(* A step of the model is one run of the event loop's job: the code from   *)
(* an I/O completion up to the next await on I/O, promise reactions        *)
(* (microtasks) included, since no other I/O callback can run in between.  *)
(***************************************************************************)
EXTENDS Naturals, Sequences, FiniteSets, TLC

\* Largest number of deployment summaries the upstream query returns.
MaxDeployments == 3

-----------------------------------------------------------------------------
(* JavaScript values *)

Undefined == [t |-> "undefined", v |-> ""]
JNull == [t |-> "null", v |-> ""]
JStr(s) == [t |-> "string", v |-> s]
JNum(n) == [t |-> "number", v |-> n]
JBool(b) == [t |-> "boolean", v |-> b]
JArr(s) == [t |-> "array", v |-> s]
JObj(r) == [t |-> "object", v |-> r]

\* ToBoolean: undefined, null, "", 0 and false are falsy, all else truthy.
Truthy(x) ==
  CASE x.t = "undefined" -> FALSE
    [] x.t = "null" -> FALSE
    [] x.t = "string" -> x.v # ""
    [] x.t = "number" -> x.v # 0
    [] x.t = "boolean" -> x.v
    [] OTHER -> TRUE

\* a || b
Or(a, b) == IF Truthy(a) THEN a ELSE b

\* obj.key
Get(obj, key) == IF key \in DOMAIN obj THEN obj[key] ELSE Undefined

-----------------------------------------------------------------------------
(* The inputs: what a client can send and what the upstream can answer *)

Ids == {"A", "B"}

\* A credential parameter as the query string or the JSON body carries it.
CredValues == {Undefined, JStr(""), JStr("u1")}

Credentials == [accountId : CredValues, username : CredValues, password : CredValues]

ProcessIds == {Undefined, JStr("p1")}

ActionParams == {"enable", "disable", "pause", "resume", "start", "Enable"}

\* An axios error: error.response is set when the upstream answered with a
\* status outside 2xx, and is undefined on a network failure.
HttpError(status, data) ==
  [hasResponse |-> TRUE, status |-> status, data |-> data,
   message |-> "Request failed with status code " \o ToString(status)]

NetworkError ==
  [hasResponse |-> FALSE, status |-> 0, data |-> Undefined,
   message |-> "connect ECONNREFUSED"]

NoError == [hasResponse |-> FALSE, status |-> 0, data |-> Undefined, message |-> ""]

\* A network failure, a status with an error body, a status with an empty one.
UpstreamErrors == {NetworkError, HttpError(404, JStr("denied")), HttpError(503, JStr(""))}

\* The record the upstream holds for a deployment id.
detailsOf(id) == [id |-> JStr(id), processId |-> JStr("p1")]

\* Records GET ProcessDeployment/<id> can answer with: the two status
\* fields are optional and may carry falsy values.
ListenerValues == {JStr("RUNNING"), JStr(""), JNull}
ScheduleValues == {JStr("PAUSED"), JStr("")}

DeploymentRecords ==
  {[id |-> JStr("A")]} \cup
  {[id |-> JStr("A"), listenerStatus |-> l] : l \in ListenerValues} \cup
  {[id |-> JStr("A"), scheduleStatus |-> s] : s \in ScheduleValues} \cup
  {[id |-> JStr("A"), listenerStatus |-> l, scheduleStatus |-> s] :
     l \in ListenerValues, s \in ScheduleValues}

\* Bodies the upstream answers a toggle or a process query with.
UpstreamBodies == {JStr(""), JObj([result |-> JStr("ok")])}

-----------------------------------------------------------------------------
(* State *)

VARIABLES
  pc,         \* where the handler of the request is
  req,        \* the inbound request
  calls,      \* the upstream calls issued, in order of issue, each with its state
  responses,  \* the responses sent for the request, in order
  all,        \* state of the Promise.all of the detail fetches
  results,    \* the values Promise.all has collected, by position; on the
              \* single-call routes, response.data
  summary,    \* response.data of the summary query
  order,      \* history: the detail fetches in the order they settled
  unhandled   \* the handler's promise was rejected (an exception escaped it)

vars == <<pc, req, calls, responses, all, results, summary, order, unhandled>>

NoSummary == [isArray |-> FALSE, ids |-> <<>>]

NoRequest ==
  [route |-> "none", deploymentId |-> "", action |-> "",
   accountId |-> Undefined, username |-> Undefined, password |-> Undefined,
   processId |-> Undefined]

Request(route, deploymentId, action, cred, processId) ==
  [route |-> route, deploymentId |-> deploymentId, action |-> action,
   accountId |-> cred.accountId, username |-> cred.username,
   password |-> cred.password, processId |-> processId]

Init ==
  /\ pc = "idle"
  /\ req = NoRequest
  /\ calls = <<>>
  /\ responses = <<>>
  /\ all = "none"
  /\ results = <<>>
  /\ summary = NoSummary
  /\ order = <<>>
  /\ unhandled = FALSE

-----------------------------------------------------------------------------
(* Helpers of the source *)

\* Buffer.from(`${username}:${password}`).toString('base64'), kept symbolic.
Base64(s) == [base64 |-> s]

getBoomiAuthHeaders(accountId, username, password) ==
  [Authorization |-> <<"Basic", Base64(username.v \o ":" \o password.v)>>,
   Accept |-> "application/json",
   ContentType |-> "application/json"]

getBoomiApiUrl(accountId) == "https://api.boomi.com/api/rest/v1/" \o accountId.v

\* The empty query filter the two query routes post.
QueryFilter ==
  JObj([QueryFilter |->
    JObj([expression |->
      JObj([operator |-> JStr("and"), nestedExpression |-> JArr(<<>>)])])])

\* Variant: the guard forgets the password.
MissingCredentialsNoPassword(q) ==
  ~Truthy(q.accountId) \/ ~Truthy(q.username)

\* if (!accountId || !username || !password)
MissingCredentials(q) ==
  ~Truthy(q.accountId) \/ ~Truthy(q.username) \/ ~Truthy(q.password)

\* An upstream call as axios issues it.  The url is kept as its segments, the
\* template literal's parts between the slashes.
Call(method, url, data, q) ==
  [method |-> method, url |-> url, data |-> data,
   headers |-> getBoomiAuthHeaders(q.accountId, q.username, q.password),
   state |-> "pending", error |-> NoError]

\* res.status(s).json(b) and res.json(b)
Response(status, body) == [status |-> status, body |-> body]

MissingCredentialsResponse ==
  Response(400, JObj([error |-> JStr("Missing required authentication parameters")]))

\* res.status(error.response?.status || 500)
\*    .json({ error: error.response?.data || error.message })
ErrorStatus(error) ==
  Or(IF error.hasResponse THEN JNum(error.status) ELSE Undefined, JNum(500)).v

ErrorBody(error) ==
  JObj([error |-> Or(IF error.hasResponse THEN error.data ELSE Undefined,
                     JStr(error.message))])

ErrorResponse(error) == Response(ErrorStatus(error), ErrorBody(error))

Settle(k, state, error) ==
  [calls EXCEPT ![k] = [@ EXCEPT !.state = state, !.error = error]]

-----------------------------------------------------------------------------
(* GET /api/deployments *)

\* processId ? { processIds: [processId] } : { QueryFilter: ... }
queryData(processId) ==
  IF Truthy(processId) THEN JObj([processIds |-> JArr(<<processId>>)])
  ELSE QueryFilter

\* Variant: Promise.allSettled read as an array of values, a failed fetch
\* leaving its slot empty.
PromiseAllSettled(prev, states) ==
  IF prev # "pending" THEN prev
  ELSE IF \A i \in DOMAIN states : states[i] # "pending" THEN "fulfilled"
  ELSE "pending"

\* Variant: the rejection is reported only once every fetch has settled.
PromiseAllWaits(prev, states) ==
  IF prev # "pending" THEN prev
  ELSE IF \E i \in DOMAIN states : states[i] = "pending" THEN "pending"
  ELSE IF \E i \in DOMAIN states : states[i] = "failed" THEN "rejected"
  ELSE "fulfilled"

\* Promise.all over the promises whose states are given: it settles once,
\* rejects as soon as one of them rejects, fulfils when all have fulfilled.
PromiseAll(prev, states) ==
  IF prev # "pending" THEN prev
  ELSE IF \E i \in DOMAIN states : states[i] = "failed" THEN "rejected"
  ELSE IF \A i \in DOMAIN states : states[i] = "ok" THEN "fulfilled"
  ELSE "pending"

\* Variant: values are pushed as the fetches complete.
CollectInCompletionOrder(res, i, value) ==
  [res EXCEPT ![CHOOSE k \in DOMAIN res :
                  /\ res[k] = Undefined
                  /\ \A j \in 1..(k - 1) : res[j] # Undefined] = value]

\* Promise.all stores the value of its i-th promise at index i.
Collect(res, i, value) == [res EXCEPT ![i] = value]

\* States of the detail fetches: calls 2 .. Len(calls) of the request.
DetailStates(cs) == [i \in 1..(Len(cs) - 1) |-> cs[i + 1].state]

\* The reason Promise.all rejected with: that of the fetch that failed.
Reason(cs) == cs[CHOOSE k \in 2..Len(cs) : cs[k].state = "failed"].error

\* The handler resumes after `await Promise.all(...)`: res.json(deployments)
\* when it fulfilled, the catch block when it rejected.  A Promise.all that
\* has settled before runs no reaction again.
AfterDetails(newAll, newCalls, newResults) ==
  IF all = "pending" /\ newAll = "fulfilled"
  THEN /\ responses' = Append(responses, Response(200, JArr(newResults)))
       /\ pc' = "done"
  ELSE IF all = "pending" /\ newAll = "rejected"
  THEN /\ responses' = Append(responses, ErrorResponse(Reason(newCalls)))
       /\ pc' = "done"
  ELSE UNCHANGED <<responses, pc>>

ListDeployments(cred, processId) ==
  /\ pc = "idle"
  /\ LET q == Request("deployments", "", "", cred, processId) IN
     /\ req' = q
     /\ IF MissingCredentials(q)
        THEN /\ responses' = Append(responses, MissingCredentialsResponse)
             /\ pc' = "done"
             /\ calls' = calls
        ELSE /\ calls' = Append(calls,
                  Call("POST",
                       <<getBoomiApiUrl(q.accountId), "ProcessDeployment", "query">>,
                       queryData(q.processId), q))
             /\ pc' = "summary"
             /\ responses' = responses
  /\ UNCHANGED <<all, results, summary, order, unhandled>>

\* The summary query answers with an array of summaries; the map callback
\* runs for each up to its await, which issues every detail fetch.
SummaryOk(ids) ==
  /\ pc = "summary"
  /\ LET base == getBoomiApiUrl(req.accountId)
         fetches == [i \in 1..Len(ids) |->
                       Call("GET", <<base, "ProcessDeployment", ids[i]>>, Undefined, req)]
         newCalls == Settle(1, "ok", NoError) \o fetches
         newAll == PromiseAll("pending", DetailStates(newCalls))
         newResults == [i \in 1..Len(ids) |-> Undefined]
     IN /\ calls' = newCalls
        /\ all' = newAll
        /\ results' = newResults
        /\ summary' = [isArray |-> TRUE, ids |-> ids]
        /\ IF newAll = "fulfilled"
           THEN /\ responses' = Append(responses, Response(200, JArr(newResults)))
                /\ pc' = "done"
           ELSE /\ responses' = responses
                /\ pc' = "details"
  /\ UNCHANGED <<req, order, unhandled>>

\* The summary query answers 2xx with a body that is no array:
\* response.data.map throws a TypeError, which the catch block reports.
SummaryNotArray ==
  /\ pc = "summary"
  /\ calls' = Settle(1, "ok", NoError)
  /\ responses' = Append(responses,
       ErrorResponse([NoError EXCEPT !.message = "response.data.map is not a function"]))
  /\ pc' = "done"
  /\ UNCHANGED <<req, all, results, summary, order, unhandled>>

SummaryFail(error) ==
  /\ pc = "summary"
  /\ calls' = Settle(1, "failed", error)
  /\ responses' = Append(responses, ErrorResponse(error))
  /\ pc' = "done"
  /\ UNCHANGED <<req, all, results, summary, order, unhandled>>

\* The i-th detail fetch answers with the record of the id in its url.  It
\* can do so after the request was answered: nothing cancels the fetches.
DetailOk(i) ==
  /\ req.route = "deployments"
  /\ i + 1 \in DOMAIN calls
  /\ calls[i + 1].state = "pending"
  /\ LET newCalls == Settle(i + 1, "ok", NoError)
         newResults == Collect(results, i, JObj(detailsOf(calls[i + 1].url[3])))
         newAll == PromiseAll(all, DetailStates(newCalls))
     IN /\ calls' = newCalls
        /\ results' = IF all = "pending" THEN newResults ELSE results
        /\ all' = newAll
        /\ AfterDetails(newAll, newCalls, newResults)
  /\ order' = Append(order, i)
  /\ UNCHANGED <<req, summary, unhandled>>

DetailFail(i, error) ==
  /\ req.route = "deployments"
  /\ i + 1 \in DOMAIN calls
  /\ calls[i + 1].state = "pending"
  /\ LET newCalls == Settle(i + 1, "failed", error)
         newAll == PromiseAll(all, DetailStates(newCalls))
     IN /\ calls' = newCalls
        /\ all' = newAll
        /\ AfterDetails(newAll, newCalls, results)
  /\ order' = Append(order, i)
  /\ UNCHANGED <<req, results, summary, unhandled>>

-----------------------------------------------------------------------------
(* GET /api/deployment/:deploymentId/type *)

\* Variant: the flag is computed by truthiness, !!deployment.listenerStatus.
isListenerByTruthiness(deployment) == Truthy(Get(deployment, "listenerStatus"))

\* deployment.listenerStatus !== undefined
isListener(deployment) == Get(deployment, "listenerStatus") # Undefined

\* deployment.scheduleStatus !== undefined
isScheduler(deployment) == Get(deployment, "scheduleStatus") # Undefined

\* Variant: deployment.listenerStatus ?? deployment.scheduleStatus ?? 'N/A'.
statusByNullish(deployment) ==
  LET l == Get(deployment, "listenerStatus")
      s == Get(deployment, "scheduleStatus")
  IN IF l.t \notin {"undefined", "null"} THEN l
     ELSE IF s.t \notin {"undefined", "null"} THEN s
     ELSE JStr("N/A")

\* deployment.listenerStatus || deployment.scheduleStatus || 'N/A'
status(deployment) ==
  Or(Or(Get(deployment, "listenerStatus"), Get(deployment, "scheduleStatus")),
     JStr("N/A"))

deploymentDetails(deployment) == JObj(deployment)

TypeView(deployment) ==
  JObj([isListener |-> JBool(isListener(deployment)),
        isScheduler |-> JBool(isScheduler(deployment)),
        status |-> status(deployment),
        deploymentDetails |-> deploymentDetails(deployment)])

GetDeploymentType(deploymentId, cred) ==
  /\ pc = "idle"
  /\ LET q == Request("type", deploymentId, "", cred, Undefined) IN
     /\ req' = q
     /\ IF MissingCredentials(q)
        THEN /\ responses' = Append(responses, MissingCredentialsResponse)
             /\ pc' = "done"
             /\ calls' = calls
        ELSE /\ calls' = Append(calls,
                  Call("GET",
                       <<getBoomiApiUrl(q.accountId), "ProcessDeployment", deploymentId>>,
                       Undefined, q))
             /\ pc' = "upstream"
             /\ responses' = responses
  /\ UNCHANGED <<all, results, summary, order, unhandled>>

TypeOk(deployment) ==
  /\ pc = "upstream"
  /\ req.route = "type"
  /\ calls' = Settle(1, "ok", NoError)
  /\ results' = <<JObj(deployment)>>
  /\ responses' = Append(responses, Response(200, TypeView(deployment)))
  /\ pc' = "done"
  /\ UNCHANGED <<req, all, summary, order, unhandled>>

TypeFail(error) ==
  /\ pc = "upstream"
  /\ req.route = "type"
  /\ calls' = Settle(1, "failed", error)
  /\ responses' = Append(responses, ErrorResponse(error))
  /\ pc' = "done"
  /\ UNCHANGED <<req, all, results, summary, order, unhandled>>

-----------------------------------------------------------------------------
(* POST /api/deployment/:deploymentId/listener/:action
   POST /api/deployment/:deploymentId/scheduler/:action *)

\* Variant: one list of actions shared by both toggles.
AnyToggleActionAccepted(action) == action \in {"enable", "disable", "pause", "resume"}

\* ['enable', 'disable'].includes(action)
ListenerActionAccepted(action) == action \in {"enable", "disable"}

\* ['pause', 'resume'].includes(action)
SchedulerActionAccepted(action) == action \in {"pause", "resume"}

\* `${baseUrl}/ProcessDeployment/${deploymentId}/listener/${action}`
ListenerUrl(q) ==
  <<getBoomiApiUrl(q.accountId), "ProcessDeployment", q.deploymentId,
    "listener", q.action>>

\* `${baseUrl}/ProcessDeployment/${deploymentId}/schedule/${action}`
SchedulerUrl(q) ==
  <<getBoomiApiUrl(q.accountId), "ProcessDeployment", q.deploymentId,
    "schedule", q.action>>

\* { success: true, message: `Listener ${action}d successfully`,
\*   deploymentId, response: response.data }
\* Variant: the message is a fixed string.
ListenerSuccessFixedMessage(q, data) ==
  JObj([success |-> JBool(TRUE),
        message |-> JStr("Listener enabled successfully"),
        deploymentId |-> JStr(q.deploymentId),
        response |-> data])

ListenerSuccess(q, data) ==
  JObj([success |-> JBool(TRUE),
        message |-> JStr("Listener " \o q.action \o "d successfully"),
        deploymentId |-> JStr(q.deploymentId),
        response |-> data])

SchedulerSuccess(q, data) ==
  JObj([success |-> JBool(TRUE),
        message |-> JStr("Scheduler " \o q.action \o "d successfully"),
        deploymentId |-> JStr(q.deploymentId),
        response |-> data])

\* What becomes of a request whose handler threw out of its catch block.
\* Express 4 drops the rejected promise and the request is never answered;
\* Express 5 passes the error to its default handler, which answers 500
\* with a page that is not the handler's JSON.
Frameworks == {"express4", "express5"}

DefaultErrorResponse ==
  Response(500, [t |-> "html", v |-> "ReferenceError: action is not defined"])

\* The catch block of both toggle handlers starts with
\*   console.error(`Error ${action}ing listener:`, ...)
\* where `action` is a const of the try block, out of scope in the catch
\* block: evaluating the template throws a ReferenceError before
\* res.status(...).json(...) is reached.
ToggleCatch(error, framework) ==
  /\ unhandled' = TRUE
  /\ responses' = IF framework = "express5"
                  THEN Append(responses, DefaultErrorResponse)
                  ELSE responses

\* Variant: the two validation branches answer 400 without returning.
ToggleListenerNoReturn(deploymentId, action, cred) ==
  /\ pc = "idle"
  /\ LET q == Request("listener", deploymentId, action, cred, Undefined)
         r1 == IF MissingCredentials(q)
               THEN Append(responses, MissingCredentialsResponse)
               ELSE responses
         r2 == IF ~ListenerActionAccepted(action)
               THEN Append(r1, Response(400,
                      JObj([error |-> JStr("Action must be enable or disable")])))
               ELSE r1
     IN /\ req' = q
        /\ responses' = r2
        /\ calls' = Append(calls, Call("POST", ListenerUrl(q), JObj(<<>>), q))
        /\ pc' = "upstream"
  /\ UNCHANGED <<all, results, summary, order, unhandled>>

ToggleListener(deploymentId, action, cred) ==
  /\ pc = "idle"
  /\ LET q == Request("listener", deploymentId, action, cred, Undefined) IN
     /\ req' = q
     /\ IF MissingCredentials(q)
        THEN /\ responses' = Append(responses, MissingCredentialsResponse)
             /\ pc' = "done"
             /\ calls' = calls
        ELSE IF ~ListenerActionAccepted(action)
        THEN /\ responses' = Append(responses,
                  Response(400, JObj([error |-> JStr("Action must be enable or disable")])))
             /\ pc' = "done"
             /\ calls' = calls
        ELSE /\ calls' = Append(calls, Call("POST", ListenerUrl(q), JObj(<<>>), q))
             /\ pc' = "upstream"
             /\ responses' = responses
  /\ UNCHANGED <<all, results, summary, order, unhandled>>

ListenerOk(data) ==
  /\ pc = "upstream"
  /\ req.route = "listener"
  /\ calls' = Settle(1, "ok", NoError)
  /\ results' = <<data>>
  /\ responses' = Append(responses, Response(200, ListenerSuccess(req, data)))
  /\ pc' = "done"
  /\ UNCHANGED <<req, all, summary, order, unhandled>>

ListenerFail(error, framework) ==
  /\ pc = "upstream"
  /\ req.route = "listener"
  /\ calls' = Settle(1, "failed", error)
  /\ ToggleCatch(error, framework)
  /\ pc' = "done"
  /\ UNCHANGED <<req, all, results, summary, order>>

ToggleScheduler(deploymentId, action, cred) ==
  /\ pc = "idle"
  /\ LET q == Request("scheduler", deploymentId, action, cred, Undefined) IN
     /\ req' = q
     /\ IF MissingCredentials(q)
        THEN /\ responses' = Append(responses, MissingCredentialsResponse)
             /\ pc' = "done"
             /\ calls' = calls
        ELSE IF ~SchedulerActionAccepted(action)
        THEN /\ responses' = Append(responses,
                  Response(400, JObj([error |-> JStr("Action must be pause or resume")])))
             /\ pc' = "done"
             /\ calls' = calls
        ELSE /\ calls' = Append(calls, Call("POST", SchedulerUrl(q), JObj(<<>>), q))
             /\ pc' = "upstream"
             /\ responses' = responses
  /\ UNCHANGED <<all, results, summary, order, unhandled>>

SchedulerOk(data) ==
  /\ pc = "upstream"
  /\ req.route = "scheduler"
  /\ calls' = Settle(1, "ok", NoError)
  /\ results' = <<data>>
  /\ responses' = Append(responses, Response(200, SchedulerSuccess(req, data)))
  /\ pc' = "done"
  /\ UNCHANGED <<req, all, summary, order, unhandled>>

SchedulerFail(error, framework) ==
  /\ pc = "upstream"
  /\ req.route = "scheduler"
  /\ calls' = Settle(1, "failed", error)
  /\ ToggleCatch(error, framework)
  /\ pc' = "done"
  /\ UNCHANGED <<req, all, results, summary, order>>

-----------------------------------------------------------------------------
(* GET /api/processes and GET /health *)

ListProcesses(cred) ==
  /\ pc = "idle"
  /\ LET q == Request("processes", "", "", cred, Undefined) IN
     /\ req' = q
     /\ IF MissingCredentials(q)
        THEN /\ responses' = Append(responses, MissingCredentialsResponse)
             /\ pc' = "done"
             /\ calls' = calls
        ELSE /\ calls' = Append(calls,
                  Call("POST", <<getBoomiApiUrl(q.accountId), "Process", "query">>,
                       QueryFilter, q))
             /\ pc' = "upstream"
             /\ responses' = responses
  /\ UNCHANGED <<all, results, summary, order, unhandled>>

ProcessesOk(data) ==
  /\ pc = "upstream"
  /\ req.route = "processes"
  /\ calls' = Settle(1, "ok", NoError)
  /\ results' = <<data>>
  /\ responses' = Append(responses, Response(200, data))
  /\ pc' = "done"
  /\ UNCHANGED <<req, all, summary, order, unhandled>>

ProcessesFail(error) ==
  /\ pc = "upstream"
  /\ req.route = "processes"
  /\ calls' = Settle(1, "failed", error)
  /\ responses' = Append(responses, ErrorResponse(error))
  /\ pc' = "done"
  /\ UNCHANGED <<req, all, results, summary, order, unhandled>>

\* res.json({ status: 'healthy', timestamp: new Date() }); the clock's
\* reading is kept symbolic.
Health ==
  /\ pc = "idle"
  /\ req' = [NoRequest EXCEPT !.route = "health"]
  /\ responses' = Append(responses,
       Response(200, JObj([status |-> JStr("healthy"), timestamp |-> JStr("now")])))
  /\ pc' = "done"
  /\ UNCHANGED <<calls, all, results, summary, order, unhandled>>

-----------------------------------------------------------------------------
(* The specification *)

\* Sequences of deployment ids the summary query can answer with.
SummaryIds == UNION {[1..n -> Ids] : n \in 0..MaxDeployments}

Next ==
  \/ \E c \in Credentials, p \in ProcessIds : ListDeployments(c, p)
  \/ \E ids \in SummaryIds : SummaryOk(ids)
  \/ SummaryNotArray
  \/ \E e \in UpstreamErrors : SummaryFail(e)
  \/ \E i \in 1..MaxDeployments : DetailOk(i)
  \/ \E i \in 1..MaxDeployments, e \in UpstreamErrors : DetailFail(i, e)
  \/ \E d \in Ids, c \in Credentials : GetDeploymentType(d, c)
  \/ \E r \in DeploymentRecords : TypeOk(r)
  \/ \E e \in UpstreamErrors : TypeFail(e)
  \/ \E d \in Ids, a \in ActionParams, c \in Credentials : ToggleListener(d, a, c)
  \/ \E b \in UpstreamBodies : ListenerOk(b)
  \/ \E e \in UpstreamErrors, f \in Frameworks : ListenerFail(e, f)
  \/ \E d \in Ids, a \in ActionParams, c \in Credentials : ToggleScheduler(d, a, c)
  \/ \E b \in UpstreamBodies : SchedulerOk(b)
  \/ \E e \in UpstreamErrors, f \in Frameworks : SchedulerFail(e, f)
  \/ \E c \in Credentials : ListProcesses(c)
  \/ \E b \in UpstreamBodies : ProcessesOk(b)
  \/ \E e \in UpstreamErrors : ProcessesFail(e)
  \/ Health

Spec == Init /\ [][Next]_vars

-----------------------------------------------------------------------------
(* Vocabulary of the properties *)

ProtectedRoutes == {"deployments", "type", "listener", "scheduler", "processes"}

ToggleRoutes == {"listener", "scheduler"}

\* A credential parameter the request does not carry.
CredentialAbsent ==
  req.accountId = Undefined \/ req.username = Undefined \/ req.password = Undefined

\* All three credential parameters carried, none of them empty.
CredentialsPresent ==
  /\ req.accountId \notin {Undefined, JStr("")}
  /\ req.username \notin {Undefined, JStr("")}
  /\ req.password \notin {Undefined, JStr("")}

\* A response of status st whose body is an object with an error member.
IsError(r, st) ==
  /\ r.status = st
  /\ r.body.t = "object"
  /\ "error" \in DOMAIN r.body.v

\* A success response carrying an array.
IsArraySuccess(r) == r.status = 200 /\ r.body.t = "array"

\* The response the failure semantics prescribe for the upstream error e.
Surfaces(r, e) ==
  /\ r.status = (IF e.hasResponse THEN e.status ELSE 500)
  /\ r.body.t = "object"
  /\ DOMAIN r.body.v = {"error"}
  /\ r.body.v.error \in
       (IF e.hasResponse THEN {e.data, JStr(e.message)} ELSE {JStr(e.message)})

FailedCalls(cs) == {k \in DOMAIN cs : cs[k].state = "failed"}

FailedDetails(cs) == {k \in DOMAIN cs : k > 1 /\ cs[k].state = "failed"}

AcceptedAction ==
  \/ req.route = "listener" /\ req.action \in {"enable", "disable"}
  \/ req.route = "scheduler" /\ req.action \in {"pause", "resume"}

\* The messages of a toggle, written out.
ToggleMessage ==
  [listener |-> [enable |-> "Listener enabled successfully",
                 disable |-> "Listener disabled successfully"],
   scheduler |-> [pause |-> "Scheduler paused successfully",
                  resume |-> "Scheduler resumed successfully"]]

\* The path segment of each toggle.
ToggleSegment == [listener |-> "listener", scheduler |-> "schedule"]

\* GET .../type answered with success for the upstream record results[1].
TypeAnswered ==
  /\ req.route = "type"
  /\ Len(calls) = 1
  /\ calls[1].state = "ok"
  /\ Len(responses) = 1
  /\ responses[1].status = 200

-----------------------------------------------------------------------------
(* Properties *)

\* C1: on every protected route, a request that lacks accountId, username
\* or password is answered 400 with an error body, and no upstream call is
\* issued at any point of its handling.
C1_MissingCredentials ==
  (req.route \in ProtectedRoutes /\ CredentialAbsent) =>
     /\ calls = <<>>
     /\ Len(responses) = 1
     /\ IsError(responses[1], 400)

C1_Witness ==
  /\ req.route = "listener"
  /\ req.action = "enable"
  /\ req.accountId = JStr("u1")
  /\ req.username = JStr("u1")
  /\ req.password = Undefined
  /\ pc = "done"
  /\ Len(responses) = 1

\* C2: on every route that calls upstream, the toggles included, a failed
\* upstream call gives the request one response, whose status is the
\* upstream status when there is one and 500 otherwise, and whose body is
\* {error: upstream error body or local error message}.
C2_UpstreamFailureSurfaces ==
  (FailedCalls(calls) # {}) =>
     /\ Len(responses) = 1
     /\ \E k \in FailedCalls(calls) : Surfaces(responses[1], calls[k].error)

\* The same, on the routes other than the two toggles.
C2_OtherRoutes ==
  (FailedCalls(calls) # {} /\ req.route \notin ToggleRoutes) =>
     /\ Len(responses) = 1
     /\ \E k \in FailedCalls(calls) : Surfaces(responses[1], calls[k].error)

\* C3: in list deployments, when the summary query returned the ids
\* d1..dn and every detail fetch succeeded, the response is an array of
\* length n whose i-th element is the detail record of di, in whatever
\* order the fetches completed.
C3_SummaryOrder ==
  (/\ req.route = "deployments"
   /\ summary.isArray
   /\ \A k \in DOMAIN calls : calls[k].state = "ok") =>
     /\ Len(responses) = 1
     /\ IsArraySuccess(responses[1])
     /\ Len(responses[1].body.v) = Len(summary.ids)
     /\ \A i \in 1..Len(summary.ids) :
          responses[1].body.v[i] = JObj(detailsOf(summary.ids[i]))

C3_Witness ==
  /\ req.route = "deployments"
  /\ summary.ids = <<"B", "A", "B">>
  /\ order = <<3, 1, 2>>
  /\ \A k \in DOMAIN calls : calls[k].state = "ok"
  /\ Len(responses) = 1

\* C4: in list deployments, once a detail fetch has failed the request is
\* answered with an error, and no response of the request is a success
\* carrying an array, whatever the order of completion and failure.
C4_NoPartialArray ==
  (req.route = "deployments" /\ FailedDetails(calls) # {}) =>
     /\ Len(responses) >= 1
     /\ \A j \in DOMAIN responses :
          /\ ~IsArraySuccess(responses[j])
          /\ \E st \in {404, 500, 503} : IsError(responses[j], st)

C4_Witness ==
  /\ req.route = "deployments"
  /\ Len(calls) = 4
  /\ calls[2].state = "ok"
  /\ calls[3].state = "failed"
  /\ calls[4].state = "ok"
  /\ order = <<1, 2, 3>>
  /\ Len(responses) = 1

\* C5 as claimed: the status is listenerStatus whenever that field is
\* present, whatever its value, else scheduleStatus whenever that field is
\* present, and "N/A" only when neither is.
C5_StatusByPresence ==
  TypeAnswered =>
    LET d == results[1].v
        st == responses[1].body.v.status
    IN IF "listenerStatus" \in DOMAIN d THEN st = d.listenerStatus
       ELSE IF "scheduleStatus" \in DOMAIN d THEN st = d.scheduleStatus
       ELSE st = JStr("N/A")

\* Values of a status field that JavaScript takes for false.
FalsyStatus == {JStr(""), JNull}

\* C5 as amended: the status is listenerStatus when that field is present
\* with a truthy value, else scheduleStatus when that field is present with
\* a truthy value, else "N/A"; a field present with a falsy value counts as
\* absent.
C5_StatusByTruthiness ==
  TypeAnswered =>
    LET d == results[1].v
        st == responses[1].body.v.status
        hasL == "listenerStatus" \in DOMAIN d /\ d.listenerStatus \notin FalsyStatus
        hasS == "scheduleStatus" \in DOMAIN d /\ d.scheduleStatus \notin FalsyStatus
    IN IF hasL THEN st = d.listenerStatus
       ELSE IF hasS THEN st = d.scheduleStatus
       ELSE st = JStr("N/A")

C5_Witness ==
  /\ TypeAnswered
  /\ results[1].v = [id |-> JStr("A"), listenerStatus |-> JStr(""),
                     scheduleStatus |-> JStr("PAUSED")]
  /\ responses[1].body.v.status = JStr("PAUSED")

\* C6: isListener is true exactly when the upstream record has a
\* listenerStatus key and isScheduler exactly when it has a scheduleStatus
\* key, whatever the value, and deploymentDetails is the record unchanged.
C6_FlagsByPresence ==
  TypeAnswered =>
    LET d == results[1].v
        view == responses[1].body.v
    IN /\ view.isListener = JBool("listenerStatus" \in DOMAIN d)
       /\ view.isScheduler = JBool("scheduleStatus" \in DOMAIN d)
       /\ view.deploymentDetails = JObj(d)

C6_Witness ==
  /\ TypeAnswered
  /\ results[1].v = [id |-> JStr("A"), listenerStatus |-> JNull]
  /\ responses[1].body.v.isListener = JBool(TRUE)
  /\ responses[1].body.v.isScheduler = JBool(FALSE)

\* C7: with credentials present, a toggle whose action is not one of the
\* two literals of its route is answered 400 with an error body, and no
\* upstream call is issued.
C7_InvalidAction ==
  (req.route \in ToggleRoutes /\ CredentialsPresent /\ ~AcceptedAction) =>
     /\ calls = <<>>
     /\ Len(responses) = 1
     /\ IsError(responses[1], 400)

C7_Witness ==
  /\ req.route = "listener"
  /\ req.action = "pause"
  /\ CredentialsPresent
  /\ pc = "done"
  /\ Len(responses) = 1

\* C8: with credentials present and an accepted action, a toggle issues
\* exactly one upstream call, a POST whose path carries the deploymentId
\* and the action literal; when that call succeeds the response is a
\* success naming the action, the deploymentId and the upstream body.
C8_TogglePassThrough ==
  (req.route \in ToggleRoutes /\ CredentialsPresent /\ AcceptedAction) =>
     /\ Len(calls) = 1
     /\ calls[1].method = "POST"
     /\ calls[1].url = <<"https://api.boomi.com/api/rest/v1/" \o req.accountId.v,
                         "ProcessDeployment", req.deploymentId,
                         ToggleSegment[req.route], req.action>>
     /\ calls[1].state = "ok" =>
          /\ Len(responses) = 1
          /\ responses[1].status = 200
          /\ responses[1].body =
               JObj([success |-> JBool(TRUE),
                     message |-> JStr(ToggleMessage[req.route][req.action]),
                     deploymentId |-> JStr(req.deploymentId),
                     response |-> results[1]])

C8_Witness ==
  /\ req.route = "listener"
  /\ req.action = "disable"
  /\ req.deploymentId = "B"
  /\ Len(calls) = 1
  /\ calls[1].state = "ok"
  /\ Len(responses) = 1
  /\ responses[1].body.v.response = JObj([result |-> JStr("ok")])

\* C9: in list deployments the error response is sent in the step in which
\* the first detail fetch fails, outstanding fetches or not; the detail
\* fetches are issued, all of them, in the step in which the summary query
\* succeeds and in no other; none is issued when the summary query fails.
C9_FailFast ==
  /\ [][(req.route = "deployments" /\ FailedDetails(calls) = {}
           /\ FailedDetails(calls') # {}) =>
          (/\ Len(responses) = 0
           /\ Len(responses') = 1
           /\ \E st \in {404, 500, 503} : IsError(responses'[1], st))]_vars
  /\ [][(req.route = "deployments" /\ Len(calls') # Len(calls)) =>
          (/\ Len(calls) = 1
           /\ calls[1].state = "pending"
           /\ calls'[1].state = "ok"
           /\ summary'.isArray
           /\ Len(calls') = 1 + Len(summary'.ids)
           /\ \A i \in 1..Len(summary'.ids) :
                /\ calls'[i + 1].state = "pending"
                /\ calls'[i + 1].url[3] = summary'.ids[i])]_vars
  /\ []((req.route = "deployments" /\ Len(calls) >= 1 /\ calls[1].state # "ok")
          => Len(calls) = 1)

C9_Witness ==
  /\ req.route = "deployments"
  /\ Len(calls) = 4
  /\ calls[2].state = "pending"
  /\ calls[3].state = "failed"
  /\ calls[4].state = "pending"
  /\ Len(responses) = 1
  /\ responses[1].status = 404

\* C10: on every route and for every sequence of upstream completions and
\* failures, at most one response is sent for the request.
C10_AtMostOneResponse == Len(responses) <= 1

C10_Witness ==
  /\ req.route = "deployments"
  /\ Cardinality(FailedDetails(calls)) = 3
  /\ Len(responses) = 1

====
